---- MODULE Spec2Model ----
(***************************************************************************)
(* Order intake, matching and settlement of the dark-pool prototype:       *)
(*   prototype/server.js  POST /orders, POST /reset (the intake process)   *)
(*   prototype/worker.js  processLoop (the matching worker process)        *)
(* The two are separate OS processes that share three JSON files.  A read  *)
(* is fs.readFileSync of the whole file; a write is fs.writeFileSync, which *)
(* opens the file truncating it and then writes the text from its first    *)
(* byte.  One action of the model is the code of one process between two   *)
(* such accesses: a read, the truncation of a write, the write itself.     *)
(***************************************************************************)
EXTENDS Integers, Sequences, FiniteSets, TLC

(***************************************************************************)
(* Bounds of the model.                                                    *)
(***************************************************************************)
\* number of POST /orders requests that are accepted in one behaviour
MaxOrders == 3
\* number of Date.now() readings taken in one behaviour
MaxClock == 5
\* numbers of bytes that a write which raises has put into the file: none
\* (ENOSPC), or as many as a file-size limit admits (EFBIG)
WriteStops == {0, 300, 600}

(***************************************************************************)
(* JavaScript values.  A missing property reads as undefined; numbers are  *)
(* non-negative integers, undefined and NaN are encoded below them.        *)
(***************************************************************************)
UndefStr == "undefined"
UndefNum == -1
NaN == -2

\* Math.min(a, b): NaN as soon as one argument is not a number
MathMin(a, b) ==
    IF a < 0 \/ b < 0 THEN NaN ELSE IF a <= b THEN a ELSE b

(***************************************************************************)
(* Envelopes.  A ciphertext is modelled by what the worker's decoding      *)
(* makes of it under the server key:                                       *)
(*   "demo"    the literal string 'demo'                                   *)
(*   "sealed"  box.open succeeds and the plaintext is the JSON of `terms`  *)
(*   "forged"  box.open returns null (authentication fails)                *)
(*   "garbled" decodeBase64 / box.open throws                              *)
(*   "notjson" box.open succeeds, JSON.parse of the plaintext throws       *)
(* The terms are the properties of the plaintext object: the worker reads  *)
(* side, price, amount, owner and ownerAddress and copies them all, with   *)
(* whatever else the sender put beside them, into the settlement.          *)
(***************************************************************************)
Terms(side, price, amount, owner) ==
    [side |-> side, price |-> price, amount |-> amount,
     owner |-> owner, ownerAddress |-> UndefStr, timestamp |-> UndefStr]

\* new Date().toISOString(): the time of sealing that the browser client
\* puts into the plaintext
IsoTime == "2026-01-01T00:00:00.000Z"

NoTerms == Terms(UndefStr, UndefNum, UndefNum, UndefStr)

Ciphertext(seal, terms) == [seal |-> seal, terms |-> terms]

\* the request body of POST /orders
Body(ciphertext, nonce, key, side, price, amount) ==
    [ciphertext |-> ciphertext, nonce |-> nonce, senderPublicKey |-> key,
     side |-> side, price |-> price, amount |-> amount]

DemoBody(side, price, amount, key) ==
    Body(Ciphertext("demo", NoTerms), "demo", key, side, price, amount)

\* the name the browser client draws for itself: 'user-' and the first nine
\* characters that Math.random() has behind the point in base 36, fewer
\* when it has fewer (0.5 is "0.i")
ClientNames == {"user-qr8lxlrw8", "user-i"}

\* what the browser client sends: the envelope of the terms, of the name
\* it drew and of the time of sealing, and the same terms in clear
ClientBody(side, price, amount, name, key) ==
    Body(Ciphertext("sealed", [Terms(side, price, amount, name)
                                  EXCEPT !.timestamp = IsoTime]),
         "nonce", key, side, price, amount)

\* an envelope alone: side, price and amount are optional in the request
BareBody(seal, terms, key) ==
    Body(Ciphertext(seal, terms), "nonce", key, UndefStr, UndefNum, UndefNum)

\* an envelope sealed under another public key, with clear terms beside it
ForgedBody(side, price, amount, key) ==
    Body(Ciphertext("forged", NoTerms), "nonce", key, side, price, amount)

\* the request bodies the intake is offered
Bodies ==
    { DemoBody("buy", 10, 5, "pk1"),
      DemoBody("sell", 10, 3, "pk2"),
      DemoBody("sell", 11, 3, "pk2"),
      DemoBody(UndefStr, 10, 3, "pk3"),
      BareBody("sealed", Terms("buy", 10, 5, "bob"), "pk5"),
      ForgedBody("sell", 10, 3, "pk6") }
    \cup { ClientBody("sell", 10, 3, name, "pk4") : name \in ClientNames }

\* request bodies whose envelope cannot be turned into terms: the base64
\* decoding or box.open raises, or the authenticated plaintext is not JSON;
\* offered together with envelopes that open and a demo order
DecodeBodies ==
    { BareBody("garbled", NoTerms, "pk7"),
      BareBody("notjson", NoTerms, "pk8"),
      ClientBody("sell", 10, 3, "user-qr8lxlrw8", "pk4"),
      BareBody("sealed", Terms("buy", 10, 5, "bob"), "pk5"),
      DemoBody("buy", 10, 5, "pk1") }

\* request bodies for the runs of the worker's loop: orders that match on
\* either path and one that fails authentication
LoopBodies ==
    { DemoBody("buy", 10, 5, "pk1"),
      ClientBody("sell", 10, 3, "user-qr8lxlrw8", "pk4"),
      BareBody("sealed", Terms("buy", 10, 5, "bob"), "pk5"),
      ForgedBody("sell", 10, 3, "pk6") }

\* encrypted orders whose decrypted terms name the owner by `owner`, by
\* `ownerAddress`, or not at all
OwnerBodies ==
    { BareBody("sealed", Terms("sell", 10, 3, "alice"), "pk4"),
      BareBody("sealed", Terms("buy", 10, 5, UndefStr), "pk5"),
      BareBody("sealed", [Terms("buy", 10, 5, UndefStr)
                             EXCEPT !.ownerAddress = "0xcarol"], "pk8") }

\* demo request bodies without some of the optional cleartext fields
\* (server.js line 139: side?, price?, amount?), and two complete ones
OptionalBodies ==
    { DemoBody("buy", UndefNum, 5, "pk1"),
      DemoBody("sell", UndefNum, 3, "pk2"),
      DemoBody("buy", 10, UndefNum, "pk3"),
      DemoBody("sell", 10, 3, "pk2"),
      DemoBody("buy", 10, 5, "pk1") }

\* request bodies that lack one of the three required fields
MissingBodies ==
    { Body(Ciphertext(UndefStr, NoTerms), "nonce", "pk1", "buy", 10, 5),
      Body(Ciphertext("sealed", Terms("buy", 10, 5, "bob")), UndefStr, "pk5",
           UndefStr, UndefNum, UndefNum),
      Body(Ciphertext("demo", NoTerms), "demo", UndefStr, "sell", 10, 3) }

(***************************************************************************)
(* State.                                                                  *)
(***************************************************************************)
VARIABLES
    ORDERS_FILE,        \* db/orders.json: sequence of order records
    SETTLEMENTS_FILE,   \* db/settlements.json: sequence of settlements
    BALANCES_FILE,      \* db/balances.json: owner key -> running total
    size,               \* length in bytes of each of the three files
    wpc,                \* worker: "idle" | "read" | "scan" | "settle" |
                        \*         "append" | "balance" | "book" | "store"
    orders,             \* worker: the orders parsed at the start of the pass
    changed,            \* worker: the pass's `changed` flag
    cursor,             \* worker: index in `orders` of the subject `o`
    opposite,           \* worker: index in `orders` of `opposite`, 0 if none
    settlements,        \* worker: the settlements parsed before the append
    balances,           \* worker: the balances parsed and updated
    spc,                \* intake: "idle" | "open" | "write" (in POST /orders)
                        \*         | "reset" (in POST /reset)
    reqOrders,          \* intake: the handler's `orders` after the push
    nextId,             \* number of the next uuid
    now                 \* number of Date.now() readings taken so far

vars == <<ORDERS_FILE, SETTLEMENTS_FILE, BALANCES_FILE, size, wpc, orders,
          changed, cursor, opposite, settlements, balances, spc, reqOrders,
          nextId, now>>

files == <<ORDERS_FILE, SETTLEMENTS_FILE, BALANCES_FILE, size>>
worker == <<wpc, orders, changed, cursor, opposite, settlements, balances>>
intake == <<spc, reqOrders, nextId>>

\* the JSON object {}
NoBalances == [k \in {} |-> 0]

\* both processes create the files when they are missing, with the texts
\* "[]", "[]" and "{}"
Init ==
    /\ ORDERS_FILE = <<>>
    /\ SETTLEMENTS_FILE = <<>>
    /\ BALANCES_FILE = NoBalances
    /\ size = [orders |-> 2, settlements |-> 2, balances |-> 2]
    /\ wpc = "idle"
    /\ orders = <<>>
    /\ changed = FALSE
    /\ cursor = 0
    /\ opposite = 0
    /\ settlements = <<>>
    /\ balances = NoBalances
    /\ spc = "idle"
    /\ reqOrders = <<>>
    /\ nextId = 1
    /\ now = 0

(***************************************************************************)
(* The files as texts.  Each file variable holds what JSON.parse makes of  *)
(* the file's text, and the empty collection when the text does not parse; *)
(* `size` holds the length of the text.  Lengths are those of              *)
(* JSON.stringify(value, null, 2) (worker.js 61, 113, 125, 137; server.js  *)
(* 159) and of JSON.stringify([]) (server.js 191): a property whose value  *)
(* is undefined is left out, NaN is written null; a uuid has 36            *)
(* characters, a key 44, a nonce 32, a clock reading 13 digits; a sealed   *)
(* envelope is the base64 text of the plaintext's bytes and 16 more.       *)
(* A record of an order has, beside the properties the code gives it,      *)
(* `torn`: for each of its three base64 strings the number of characters   *)
(* that the stored string has more than the string that was submitted, 0   *)
(* when it is that string.  A write of line 137 that stops inside such a   *)
(* string, in a text that POST /orders wrote since the open, leaves the    *)
(* first characters of the worker's copy followed by the last characters   *)
(* of the other one, some of them twice when the two texts are shifted.    *)
(***************************************************************************)
\* decimal digits of a number, with its sign
NumLen(n) ==
    LET a == IF n < 0 THEN 0 - n ELSE n
        d == IF a < 10 THEN 1 ELSE IF a < 100 THEN 2 ELSE IF a < 1000 THEN 3 ELSE 4
    IN  IF n < 0 THEN d + 1 ELSE d

\* the names that stand for the base64 text of a 32-byte public key
KeyNames == {"pk0", "pk1", "pk2", "pk3", "pk4", "pk5", "pk6", "pk7", "pk8"}

\* a JSON string with its quotes: a key of 44 characters, a nonce of 32, an
\* address of 42, and every other string as it is written in the model
StrLen(str) ==
    CASE str \in KeyNames -> 46
      [] str = "nonce" -> 34
      [] str = "0xcarol" -> 44
      [] OTHER -> Len(str) + 2

\* a number property: NaN is written null
NumText(n) == IF n = NaN THEN 4 ELSE NumLen(n)

\* the line `"key": value` of an object at the given indentation, followed
\* by ",\n" or "\n": nothing when the value is undefined
StrLine(indent, keyLen, str) ==
    IF str = UndefStr THEN 0 ELSE indent + keyLen + 4 + StrLen(str) + 2

NumLine(indent, keyLen, n) ==
    IF n = UndefNum THEN 0 ELSE indent + keyLen + 4 + NumText(n) + 2

\* the property `,"key":value` of JSON.stringify(object): nothing when the
\* value is undefined
StrProp(keyLen, str) ==
    IF str = UndefStr THEN 0 ELSE 1 + keyLen + 3 + StrLen(str)

NumProp(keyLen, n) ==
    IF n = UndefNum THEN 0 ELSE 1 + keyLen + 3 + NumText(n)

\* JSON.stringify(plainOrder): the plaintext that the sender seals
PlainLen(t) ==
    LET props == StrProp(4, t.side) + NumProp(5, t.price)
                     + NumProp(6, t.amount) + StrProp(5, t.owner)
                     + StrProp(12, t.ownerAddress) + StrProp(9, t.timestamp)
    IN  IF props = 0 THEN 2 ELSE 1 + props

\* an envelope as a string with its quotes: 'demo', or the base64 text of
\* nacl.box's output, which is 16 bytes longer than the plaintext; an
\* envelope that does not open to terms is taken to be one of 88 characters
CipherLen(c) ==
    CASE c.seal = "demo" -> 6
      [] c.seal = "sealed" -> 2 + 4 * ((PlainLen(c.terms) + 16 + 2) \div 3)
      [] OTHER -> 90

\* a record whose strings are the submitted ones
Intact == [ciphertext |-> 0, nonce |-> 0, senderPublicKey |-> 0]

\* the properties of an order record in the order of lines 146-157, which
\* is the order of the lines of its text
Props ==
    <<"id", "ciphertext", "nonce", "senderPublicKey", "status", "createdAt",
      "side", "price", "amount">>

\* the name of a property with its quotes
KeyLen(p) ==
    CASE p = "id" -> 4
      [] p = "ciphertext" -> 12
      [] p = "nonce" -> 7
      [] p = "senderPublicKey" -> 17
      [] p = "status" -> 8
      [] p = "createdAt" -> 11
      [] p = "side" -> 6
      [] p = "price" -> 7
      [] p = "amount" -> 8

\* the value of a property as it is written, a string with its quotes;
\* nothing when the value is undefined
ValueLen(o, p) ==
    CASE p = "id" -> 38
      [] p = "ciphertext" -> CipherLen(o.ciphertext) + o.torn.ciphertext
      [] p = "nonce" -> StrLen(o.nonce) + o.torn.nonce
      [] p = "senderPublicKey" ->
             StrLen(o.senderPublicKey) + o.torn.senderPublicKey
      [] p = "status" -> StrLen(o.status)
      [] p = "createdAt" -> 13
      [] p = "side" -> IF o.side = UndefStr THEN 0 ELSE StrLen(o.side)
      [] p = "price" -> IF o.price = UndefNum THEN 0 ELSE NumText(o.price)
      [] p = "amount" -> IF o.amount = UndefNum THEN 0 ELSE NumText(o.amount)

\* the line `    "key": value` of a record with the ",\n" or "\n" behind it
LineLen(o, p) ==
    IF ValueLen(o, p) = 0 THEN 0 ELSE 4 + KeyLen(p) + 2 + ValueLen(o, p) + 2

\* the first n lines of a record
RECURSIVE LinesLen(_, _)
LinesLen(o, n) ==
    IF n = 0 THEN 0 ELSE LineLen(o, Props[n]) + LinesLen(o, n - 1)

\* one order record as an element of the array, with the ",\n" or "\n"
\* that follows it: "  {\n", the lines (the last without its comma), "  }"
OrderLen(o) ==
    4 + (4 + 2 + 4 + 38 + 2)
      + (4 + 10 + 4 + CipherLen(o.ciphertext) + o.torn.ciphertext + 2)
      + StrLine(4, 5, o.nonce) + o.torn.nonce
      + StrLine(4, 15, o.senderPublicKey) + o.torn.senderPublicKey
      + StrLine(4, 6, o.status)
      + (4 + 9 + 4 + 13 + 2)
      + StrLine(4, 4, o.side)
      + NumLine(4, 5, o.price)
      + NumLine(4, 6, o.amount)
      - 1 + 3 + 2

RECURSIVE OrdersSum(_, _)
OrdersSum(os, k) ==
    IF k = 0 THEN 0 ELSE OrderLen(os[k]) + OrdersSum(os, k - 1)

\* JSON.stringify(orders, null, 2)
OrdersLen(os) ==
    IF os = <<>> THEN 2 ELSE 2 + OrdersSum(os, Len(os)) - 1 + 1

\* a leg of a settlement: "{\n", its lines at indentation 6, "    }"; the
\* key is the string of the order, torn as it is there
LegLen(leg) ==
    2 + StrLine(6, 4, leg.side) + NumLine(6, 5, leg.price)
      + NumLine(6, 6, leg.amount) + StrLine(6, 5, leg.owner)
      + StrLine(6, 12, leg.ownerAddress) + StrLine(6, 9, leg.timestamp)
      + StrLine(6, 15, leg.senderPublicKey) + leg.torn - 1 + 5

\* one settlement as an element of the array
EntryLen(s) ==
    4 + (4 + 2 + 4 + 75 + 2)
      + (4 + 3 + 4 + LegLen(s.buy) + 2)
      + (4 + 4 + 4 + LegLen(s.sell) + 2)
      + NumLine(4, 5, s.price)
      + NumLine(4, 6, s.amount)
      + (4 + 9 + 4 + 13 + 2)
      - 1 + 3 + 2

RECURSIVE EntriesSum(_, _)
EntriesSum(l, k) ==
    IF k = 0 THEN 0 ELSE EntryLen(l[k]) + EntriesSum(l, k - 1)

\* JSON.stringify(settlements, null, 2)
LedgerLen(l) ==
    IF l = <<>> THEN 2 ELSE 2 + EntriesSum(l, Len(l)) - 1 + 1

RECURSIVE KeysLen(_, _)
KeysLen(b, K) ==
    IF K = {} THEN 0
    ELSE LET k == CHOOSE x \in K : TRUE
         IN  2 + StrLen(k) + 2 + NumLen(b[k]) + 2 + KeysLen(b, K \ {k})

\* JSON.stringify(balances, null, 2)
BalancesLen(b) ==
    IF DOMAIN b = {} THEN 2 ELSE 2 + KeysLen(b, DOMAIN b) - 1 + 1

\* JSON.parse of the file's text returns (it raises on an empty file and on
\* a text followed by the rest of a longer one)
OrdersParse == size.orders = OrdersLen(ORDERS_FILE)
LedgerParses == size.settlements = LedgerLen(SETTLEMENTS_FILE)
BalancesParse == size.balances = BalancesLen(BALANCES_FILE)

\* the open of fs.writeFileSync: the file is truncated
Truncated(file) == [size EXCEPT ![file] = 0]

\* the write of fs.writeFileSync, of a text of `len` bytes from the first
\* byte of a file that holds size[file] bytes: the text replaces as many
\* bytes, and what the file held beyond them stays
Whole(file, len) == len >= size[file]

Written(file, len) ==
    [size EXCEPT ![file] = IF len >= size[file] THEN len ELSE size[file]]

(***************************************************************************)
(* worker.js: decoding of one order (lines 74-84, and 90-92 for a          *)
(* candidate).  tag "throw": decodeBase64 or box.open raises; "null":      *)
(* box.open returns null; "text": the plaintext is not JSON; "json": the   *)
(* parsed terms.  The string 'demo' decodes to three bytes, too short to   *)
(* authenticate.  decodeBase64 raises on a string whose length is not a    *)
(* multiple of 4, as is every torn string of the model.                    *)
(***************************************************************************)
Open(o) ==
    CASE o.torn # Intact -> [tag |-> "throw", json |-> NoTerms]
      [] o.ciphertext.seal = "sealed" ->
           [tag |-> "json", json |-> o.ciphertext.terms]
      [] o.ciphertext.seal = "notjson" -> [tag |-> "text", json |-> NoTerms]
      [] o.ciphertext.seal = "garbled" -> [tag |-> "throw", json |-> NoTerms]
      [] OTHER -> [tag |-> "null", json |-> NoTerms]

\* the stored ciphertext is the string 'demo'
DemoText(o) == o.ciphertext.seal = "demo" /\ o.torn.ciphertext = 0

\* line 37
IsDemo(o) == DemoText(o) /\ o.nonce = "demo" /\ o.torn.nonce = 0

\* Array.prototype.find over indices: the least index of S, 0 when S is empty
FirstIndex(S) ==
    IF S = {} THEN 0 ELSE CHOOSE k \in S : \A j \in S : k <= j

\* mutant of DemoPredicate: the candidate's status is not looked at
DemoPredicateAnyStatus(o, x) ==
    /\ x.id # o.id
    /\ x.side # o.side
    /\ x.price = o.price

\* lines 39-44: the arrow function given to orders.find for a demo subject
DemoPredicate(o, x) ==
    /\ x.status = "queued"
    /\ x.id # o.id
    /\ x.side # o.side
    /\ x.price = o.price

FindDemoOpposite(os, i) ==
    FirstIndex({k \in 1..Len(os) : DemoPredicate(os[i], os[k])})

\* lines 88-90: the candidates whose envelope the arrow function opens
Examined(o, x) ==
    /\ x.status = "queued"
    /\ x.id # o.id
    /\ ~DemoText(x)

\* lines 88-93: the arrow function returns true
SealedPredicate(json, o, x) ==
    /\ Examined(o, x)
    /\ Open(x).tag = "json"
    /\ Open(x).json.side # json.side
    /\ Open(x).json.price = json.price

\* lines 88-93: orders.find for a decrypted subject.  A candidate whose
\* decoding raises ends the search (the exception leaves find for line 132).
FindSealedOpposite(os, i, json) ==
    LET hit == FirstIndex({k \in 1..Len(os) :
                              SealedPredicate(json, os[i], os[k])})
        thr == FirstIndex({k \in 1..Len(os) :
                              Examined(os[i], os[k]) /\ Open(os[k]).tag = "throw"})
    IN  IF thr # 0 /\ (hit = 0 \/ thr < hit)
        THEN [threw |-> TRUE, index |-> 0]
        ELSE [threw |-> FALSE, index |-> hit]

(***************************************************************************)
(* worker.js: the settlement record.  The id `${o.id}:${opposite.id}` is   *)
(* the pair <<subject id, counterpart id>>.                                *)
(***************************************************************************)
\* lines 49-50: a leg copied from an order's clear fields
DemoLeg(o) ==
    [side |-> o.side, price |-> o.price, amount |-> o.amount,
     owner |-> UndefStr, ownerAddress |-> UndefStr, timestamp |-> UndefStr,
     senderPublicKey |-> o.senderPublicKey, torn |-> o.torn.senderPublicKey]

\* lines 102-103: { ...json, senderPublicKey }
SealedLeg(json, o) ==
    [side |-> json.side, price |-> json.price, amount |-> json.amount,
     owner |-> json.owner, ownerAddress |-> json.ownerAddress,
     timestamp |-> json.timestamp, senderPublicKey |-> o.senderPublicKey,
     torn |-> o.torn.senderPublicKey]

\* lines 49-59
DemoSettlement(o, opp, t) ==
    [id |-> <<o.id, opp.id>>,
     buy |-> IF o.side = "buy" THEN DemoLeg(o) ELSE DemoLeg(opp),
     sell |-> IF o.side = "sell" THEN DemoLeg(o) ELSE DemoLeg(opp),
     price |-> o.price,
     amount |-> MathMin(o.amount, opp.amount),
     timestamp |-> t]

\* lines 97-111
SealedSettlement(o, opp, t) ==
    LET json == Open(o).json
        oppJson == Open(opp).json
    IN  [id |-> <<o.id, opp.id>>,
         buy |-> IF json.side = "buy" THEN SealedLeg(json, o)
                                      ELSE SealedLeg(oppJson, opp),
         sell |-> IF json.side = "sell" THEN SealedLeg(json, o)
                                        ELSE SealedLeg(oppJson, opp),
         price |-> json.price,
         amount |-> MathMin(json.amount, oppJson.amount),
         timestamp |-> t]

\* a matcher that flags the subject alone
MarkSubjectFilled(os, i, j) ==
    [os EXCEPT ![i].status = "filled"]

\* lines 64-65 and 116-117
MarkFilled(os, i, j) ==
    [os EXCEPT ![i].status = "filled", ![j].status = "filled"]

\* line 80
MarkBad(os, i) == [os EXCEPT ![i].status = "bad"]

(***************************************************************************)
(* worker.js lines 121-125: the balance update.                            *)
(***************************************************************************)
\* leg.owner || leg.ownerAddress || fallback
BalanceKey(leg, fallback) ==
    IF leg.owner # UndefStr THEN leg.owner
    ELSE IF leg.ownerAddress # UndefStr THEN leg.ownerAddress
    ELSE fallback

\* (balances[k] || 0)
Held(b, k) == IF k \in DOMAIN b THEN b[k] ELSE 0

\* balances[k] = v
Put(b, k, v) == [x \in DOMAIN b \cup {k} |-> IF x = k THEN v ELSE b[x]]

\* lines 123-124; the sealed terms of the model carry numeric price and amount
UpdatedBalances(b, s) ==
    LET notional == s.amount * s.price
        b1 == Put(b, BalanceKey(s.buy, "buyer"),
                  Held(b, s.buy.owner) - notional)
    IN  Put(b1, BalanceKey(s.sell, "seller"),
            Held(b1, s.sell.owner) + notional)

(***************************************************************************)
(* worker.js processLoop.                                                  *)
(***************************************************************************)
\* the worker's locals outside a pass
Asleep ==
    /\ wpc' = "idle"
    /\ orders' = <<>>
    /\ changed' = FALSE
    /\ cursor' = 0
    /\ opposite' = 0
    /\ settlements' = <<>>
    /\ balances' = NoBalances

\* mutant of NextOrder: the loop stays on the same order
SameOrder ==
    /\ wpc' = "scan"
    /\ cursor' = cursor
    /\ opposite' = 0
    /\ settlements' = <<>>
    /\ balances' = NoBalances

\* `continue`, or the end of the loop body: on to the next order
NextOrder ==
    /\ wpc' = "scan"
    /\ cursor' = cursor + 1
    /\ opposite' = 0
    /\ settlements' = <<>>
    /\ balances' = NoBalances

\* lines 48 and 101 raise (the ledger's text does not parse).  Demo path:
\* the exception leaves the for loop through the outer catch at line 138,
\* the pass is over and line 137 is not reached.  Encrypted path: the inner
\* catch at line 132 takes it and the loop goes on
LedgerRaises ==
    IF IsDemo(orders[cursor]) THEN Asleep
                              ELSE NextOrder /\ UNCHANGED <<orders, changed>>

\* lines 46-48 and 95-101: a counterpart was found, the ledger is read
Matched(k) ==
    IF LedgerParses
    THEN /\ wpc' = "settle"
         /\ opposite' = k
         /\ settlements' = SETTLEMENTS_FILE
         /\ UNCHANGED <<orders, changed, cursor, balances>>
    ELSE LedgerRaises

\* lines 29-30: the loop comes round to a pass, when processLoop is entered
\* and every time the sleep of line 141 is over
StartPass ==
    /\ wpc = "idle"
    /\ wpc' = "read"
    /\ UNCHANGED <<orders, changed, cursor, opposite, settlements, balances,
                   files, intake, now>>

\* lines 31-32: the pass parses the whole order store; when the text does
\* not parse the outer catch at line 138 takes the exception and the worker
\* sleeps
ReadOrders ==
    /\ wpc = "read"
    /\ IF OrdersParse
       THEN /\ wpc' = "scan"
            /\ orders' = ORDERS_FILE
            /\ changed' = FALSE
            /\ cursor' = 1
            /\ UNCHANGED <<opposite, settlements, balances>>
       ELSE Asleep
    /\ UNCHANGED <<files, intake, now>>

\* lines 33-46, 73-95, 128-135: one iteration of the for loop, up to the
\* read of the ledger when a counterpart was found
ScanOrder ==
    /\ wpc = "scan"
    /\ cursor <= Len(orders)
    /\ LET o == orders[cursor]
       IN  IF o.status # "queued"
           THEN NextOrder /\ UNCHANGED <<orders, changed>>
           ELSE IF IsDemo(o)
           THEN LET k == FindDemoOpposite(orders, cursor)
                IN  IF k # 0
                    THEN Matched(k)
                    ELSE NextOrder /\ UNCHANGED <<orders, changed>>
           ELSE IF Open(o).tag = "null"
           THEN /\ orders' = MarkBad(orders, cursor)
                /\ changed' = TRUE
                /\ NextOrder
           ELSE IF Open(o).tag # "json"
           THEN NextOrder /\ UNCHANGED <<orders, changed>>
           ELSE LET f == FindSealedOpposite(orders, cursor, Open(o).json)
                IN  IF f.threw \/ f.index = 0
                    THEN NextOrder /\ UNCHANGED <<orders, changed>>
                    ELSE Matched(f.index)
    /\ UNCHANGED <<files, intake, now>>

\* lines 49-59 and 102-111: the settlement of the pair <<cursor, opposite>>
NewSettlement(os, i, j, t) ==
    IF IsDemo(os[i]) THEN DemoSettlement(os[i], os[j], t)
                     ELSE SealedSettlement(os[i], os[j], t)

\* lines 49-61 and 102-113, up to the open of fs.writeFileSync: the
\* settlement is built and pushed, the ledger file is truncated
PushSettlement ==
    /\ wpc = "settle"
    /\ now < MaxClock
    /\ now' = now + 1
    /\ settlements' =
           Append(settlements, NewSettlement(orders, cursor, opposite, now + 1))
    /\ wpc' = "append"
    /\ SETTLEMENTS_FILE' = <<>>
    /\ size' = Truncated("settlements")
    /\ UNCHANGED <<ORDERS_FILE, BALANCES_FILE, orders, changed, cursor,
                   opposite, balances, intake>>

\* lines 61-68 and 113-118: the text of the ledger is written, then both
\* orders are flagged in memory
WriteSettlement ==
    /\ wpc = "append"
    /\ SETTLEMENTS_FILE' = IF Whole("settlements", LedgerLen(settlements))
                           THEN settlements ELSE <<>>
    /\ size' = Written("settlements", LedgerLen(settlements))
    /\ orders' = MarkFilled(orders, cursor, opposite)
    /\ changed' = TRUE
    /\ IF IsDemo(orders[cursor])
       THEN NextOrder
       ELSE /\ wpc' = "balance"
            /\ UNCHANGED <<cursor, opposite, settlements, balances>>
    /\ UNCHANGED <<ORDERS_FILE, BALANCES_FILE, intake, now>>

\* lines 121-125, up to the open of fs.writeFileSync: the balances are
\* read and updated, the balances file is truncated; when the text does not
\* parse the inner catch at line 132 takes the exception
UpdateBalances ==
    /\ wpc = "balance"
    /\ IF BalancesParse
       THEN /\ balances' =
                   UpdatedBalances(BALANCES_FILE, settlements[Len(settlements)])
            /\ wpc' = "book"
            /\ BALANCES_FILE' = NoBalances
            /\ size' = Truncated("balances")
            /\ UNCHANGED <<cursor, opposite, settlements>>
       ELSE NextOrder /\ UNCHANGED <<BALANCES_FILE, size>>
    /\ UNCHANGED <<ORDERS_FILE, SETTLEMENTS_FILE, orders, changed, intake, now>>

\* lines 125-127: the text of the balances is written
WriteBalances ==
    /\ wpc = "book"
    /\ BALANCES_FILE' = IF Whole("balances", BalancesLen(balances))
                        THEN balances ELSE NoBalances
    /\ size' = Written("balances", BalancesLen(balances))
    /\ NextOrder
    /\ UNCHANGED <<ORDERS_FILE, SETTLEMENTS_FILE, orders, changed, intake, now>>

\* mutant of EndPass: the pass ends without writing the order store back
SleepWithoutWrite ==
    /\ wpc = "scan"
    /\ cursor > Len(orders)
    /\ Asleep
    /\ UNCHANGED <<files, intake, now>>

\* mutant of EndPass: the order store is written back at the end of every
\* pass, changed or not
EndPassAlways ==
    /\ wpc = "scan"
    /\ cursor > Len(orders)
    /\ wpc' = "store"
    /\ ORDERS_FILE' = <<>>
    /\ size' = Truncated("orders")
    /\ UNCHANGED <<SETTLEMENTS_FILE, BALANCES_FILE, orders, changed, cursor,
                   opposite, settlements, balances, intake, now>>

\* lines 137-141, up to the open of fs.writeFileSync: when something
\* changed the order store is truncated, otherwise the worker sleeps
EndPass ==
    /\ wpc = "scan"
    /\ cursor > Len(orders)
    /\ IF changed
       THEN /\ wpc' = "store"
            /\ ORDERS_FILE' = <<>>
            /\ size' = Truncated("orders")
            /\ UNCHANGED <<orders, changed, cursor, opposite, settlements,
                           balances>>
       ELSE Asleep /\ UNCHANGED <<ORDERS_FILE, size>>
    /\ UNCHANGED <<SETTLEMENTS_FILE, BALANCES_FILE, intake, now>>

\* lines 137-141: the text of the pass's copy is written, then the worker
\* sleeps
WriteOrders ==
    /\ wpc = "store"
    /\ ORDERS_FILE' = IF Whole("orders", OrdersLen(orders))
                      THEN orders ELSE <<>>
    /\ size' = Written("orders", OrdersLen(orders))
    /\ Asleep
    /\ UNCHANGED <<SETTLEMENTS_FILE, BALANCES_FILE, intake, now>>

\* the worker process is stopped inside a pass and started again: a file
\* it had truncated and not yet written stays empty (lines 13-15 write a
\* file only when it does not exist)
Crash ==
    /\ wpc # "idle"
    /\ Asleep
    /\ UNCHANGED <<files, intake, now>>

(***************************************************************************)
(* worker.js: a file access of the pass raises for a reason outside the    *)
(* two programs.  fs.readFileSync and the open of fs.writeFileSync leave   *)
(* the file as it was; a write that raises (ENOSPC, EFBIG, EIO) comes      *)
(* after the open has truncated the file and leaves it with the bytes      *)
(* written so far.  The worker alone writes the balances, and the only     *)
(* other text the ledger gets is the "[]" of POST /reset: a write of one   *)
(* of them that stops at some byte stops beyond what the file holds.       *)
(***************************************************************************)
\* line 31 raises: the outer catch at lines 138-140, and the worker sleeps
ReadOrdersFails ==
    /\ wpc = "read"
    /\ Asleep
    /\ UNCHANGED <<files, intake, now>>

\* lines 33-46 and 73-95: the counterpart that the iteration on the order
\* at position i finds, 0 when it finds none or does not get that far
OppositeOf(os, i) ==
    LET o == os[i]
    IN  IF o.status # "queued" THEN 0
        ELSE IF IsDemo(o) THEN FindDemoOpposite(os, i)
        ELSE IF Open(o).tag # "json" THEN 0
        ELSE LET f == FindSealedOpposite(os, i, Open(o).json)
             IN  IF f.threw THEN 0 ELSE f.index

\* lines 48, 101: a counterpart was found and the read of the ledger
\* raises; as LedgerRaises
LedgerReadFails ==
    /\ wpc = "scan"
    /\ cursor <= Len(orders)
    /\ OppositeOf(orders, cursor) # 0
    /\ LedgerRaises
    /\ UNCHANGED <<files, intake, now>>

\* lines 61, 113: the ledger cannot be opened for writing; the clock was
\* read at line 58 or 110 before, into a settlement that is dropped (the
\* reading is counted as long as MaxClock admits one).  As LedgerRaises
LedgerOpenFails ==
    /\ wpc = "settle"
    /\ now' = IF now < MaxClock THEN now + 1 ELSE now
    /\ LedgerRaises
    /\ UNCHANGED <<files, intake>>

\* the numbers of bytes at which a write of `len` bytes may stop
Stops(file, len) == {k \in WriteStops : k < len}

\* the length of the file after a write that raised with k bytes written:
\* the k bytes replace as many of what the file holds, and what it holds
\* beyond them stays
StoppedAt(file, k) ==
    IF size[file] >= k THEN size ELSE [size EXCEPT ![file] = k]

\* lines 61, 113: the write of the ledger raises after the open; the
\* orders are not flagged.  As LedgerRaises
LedgerWriteFails ==
    /\ wpc = "append"
    /\ \E k \in Stops("settlements", LedgerLen(settlements)) :
           /\ size' = StoppedAt("settlements", k)
           /\ SETTLEMENTS_FILE' = IF k = 0 THEN SETTLEMENTS_FILE ELSE <<>>
    /\ LedgerRaises
    /\ UNCHANGED <<ORDERS_FILE, BALANCES_FILE, intake, now>>

\* some access of the ledger raises
LedgerAccessFails == LedgerReadFails \/ LedgerOpenFails \/ LedgerWriteFails

\* line 121 raises, or the open of line 125: the inner catch at line 132,
\* after the ledger was written and both orders were marked (lines
\* 113-118); the loop goes on
BalancesReadFails ==
    /\ wpc = "balance"
    /\ NextOrder
    /\ UNCHANGED <<files, orders, changed, intake, now>>

\* line 125: the write of the balances raises after the open; the inner
\* catch at line 132, the loop goes on
BalancesWriteFails ==
    /\ wpc = "book"
    /\ \E k \in Stops("balances", BalancesLen(balances)) :
           /\ size' = StoppedAt("balances", k)
           /\ BALANCES_FILE' = IF k = 0 THEN BALANCES_FILE ELSE NoBalances
    /\ NextOrder
    /\ UNCHANGED <<ORDERS_FILE, SETTLEMENTS_FILE, orders, changed, intake, now>>

\* some access of the balances raises
BalancesAccessFails == BalancesReadFails \/ BalancesWriteFails

\* line 137: the order store cannot be opened for writing; the outer catch
\* at lines 138-140, and the worker sleeps
StoreOpenFails ==
    /\ wpc = "scan"
    /\ cursor > Len(orders)
    /\ changed
    /\ Asleep
    /\ UNCHANGED <<files, intake, now>>

\* line 137, the write stopping inside a text that POST /orders has put
\* into the store since the open: the file holds the first k bytes of the
\* text of `ours` followed by the text of `theirs` from byte k on.
\* The position in `os` of the record that holds byte k of its text
RecordAt(os, k) == FirstIndex({j \in 1..Len(os) : k < 2 + OrdersSum(os, j)})

\* the number of bytes of the record before byte k
OffsetAt(os, k) == k - 2 - OrdersSum(os, RecordAt(os, k) - 1)

\* the offset, in the text of a record, of the line of its n-th property
LineAt(o, n) == 4 + LinesLen(o, n - 1)

\* the offset of the first character of the value of its n-th property
ValueAt(o, n) == LineAt(o, n) + 4 + KeyLen(Props[n]) + 2

\* the offset of the first character of its status, behind the quote
StatusAt(o) == ValueAt(o, 5) + 1

\* the properties of a record whose value is a string
Strings == {1, 2, 3, 4, 5, 7}

\* c bytes of the record end inside the name of a property: behind its
\* opening quote and before its closing one
InKey(o, c) ==
    \E n \in 1..Len(Props) :
        /\ LineLen(o, Props[n]) > 0
        /\ c > LineAt(o, n) + 4
        /\ c < LineAt(o, n) + 4 + KeyLen(Props[n])

\* c bytes of the record end inside the string that is the value of its
\* n-th property
InValue(o, n, c) ==
    /\ n \in Strings
    /\ LineLen(o, Props[n]) > 0
    /\ c > ValueAt(o, n)
    /\ c < ValueAt(o, n) + ValueLen(o, Props[n])

InString(o, c) == InKey(o, c) \/ \E n \in Strings : InValue(o, n, c)

\* the two texts line up at byte k: it falls into the same record of both,
\* at the same offset, the two copies of the record differ by the status at
\* most, and the status is in the text of one copy alone: the k bytes stop
\* before its first character, or they hold it all and the rest of the
\* record starts at the same byte in both (statuses of equal length, and
\* the same character, "," or line end, behind the record's "}")
LinesUp(ours, theirs, k) ==
    LET i == RecordAt(ours, k)
    IN  /\ i <= Len(theirs)
        /\ OrdersSum(ours, i - 1) = OrdersSum(theirs, i - 1)
        /\ [ours[i] EXCEPT !.status = theirs[i].status] = theirs[i]
        /\ LET c == OffsetAt(ours, k)
               before == c <= StatusAt(ours[i])
               behind == /\ c >= StatusAt(ours[i]) + StrLen(ours[i].status) - 2
                         /\ StrLen(ours[i].status) = StrLen(theirs[i].status)
           IN  /\ before \/ behind \/ ours[i].status = theirs[i].status
               /\ \/ c <= OrderLen(ours[i]) - 2
                  \/ (i = Len(ours)) = (i = Len(theirs))

\* what JSON.parse makes of the file then: the records before byte k as
\* `ours` has them, the records behind it as `theirs` has them, and the
\* record that holds byte k with the status of the text its status is in
Spliced(ours, theirs, k) ==
    LET i == RecordAt(ours, k)
    IN  SubSeq(ours, 1, i - 1)
            \o << IF OffsetAt(ours, k) <= StatusAt(ours[i]) THEN theirs[i]
                                                             ELSE ours[i] >>
            \o SubSeq(theirs, i + 1, Len(theirs))

\* the three base64 strings of a record: ciphertext, nonce, senderPublicKey
Base64s == {2, 3, 4}

\* the number of characters by which the text of `theirs` is behind the
\* text of `ours` at byte k, both being inside the value of the n-th
\* property of their i-th record: the string that the file then holds has
\* as many characters more than the string of `theirs`
Shift(ours, theirs, k, i, n) ==
    (OrdersSum(theirs, i - 1) + ValueAt(theirs[i], n))
        - (OrdersSum(ours, i - 1) + ValueAt(ours[i], n))

\* byte k falls, in both texts, inside the same base64 string of the same
\* order, and at another character of it: the file gets a string of the
\* two parts, of a length that is not a multiple of 4
Joins(ours, theirs, k) ==
    LET i == RecordAt(ours, k)
    IN  /\ i = RecordAt(theirs, k)
        /\ [ours[i] EXCEPT !.status = theirs[i].status, !.torn = Intact]
               = [theirs[i] EXCEPT !.torn = Intact]
        /\ \E n \in Base64s :
               /\ InValue(ours[i], n, OffsetAt(ours, k))
               /\ InValue(theirs[i], n, OffsetAt(theirs, k))
               /\ (theirs[i].torn[Props[n]]
                      + Shift(ours, theirs, k, i, n)) % 4 # 0

\* what JSON.parse makes of the file then: in the record that holds byte k
\* the strings before the joined one are those of `ours`, the properties
\* behind it those of `theirs`
Joined(ours, theirs, k) ==
    LET i == RecordAt(ours, k)
        n == CHOOSE n \in Base64s : InValue(ours[i], n, OffsetAt(ours, k))
        torn == [p \in DOMAIN Intact |->
                    CASE p = Props[n] ->
                           theirs[i].torn[p] + Shift(ours, theirs, k, i, n)
                      [] \E m \in Base64s : m < n /\ p = Props[m] ->
                           ours[i].torn[p]
                      [] OTHER -> theirs[i].torn[p]]
    IN  SubSeq(ours, 1, i - 1)
            \o << [theirs[i] EXCEPT !.torn = torn] >>
            \o SubSeq(theirs, i + 1, Len(theirs))

\* the text does not parse: byte k is inside a string in one text and
\* outside every string in the other, or inside the name of a property in
\* one and inside a value in the other
Breaks(ours, theirs, k) ==
    LET o == ours[RecordAt(ours, k)]
        t == theirs[RecordAt(theirs, k)]
        c == OffsetAt(ours, k)
        d == OffsetAt(theirs, k)
    IN  \/ InString(o, c) # InString(t, d)
        \/ InString(o, c) /\ InKey(o, c) # InKey(t, d)

\* line 137: the write of the order store raises after the open, with k
\* bytes written: none, and the file is as the write found it; or some, and
\* the file holds them, which are not JSON, with behind them what the
\* intake has written beyond byte k since the open: the two texts line up,
\* or join inside a base64 string, or make a text that does not parse.
\* Left out is a write that stops where the two texts meet in another way:
\* outside every string without lining up, inside two names, inside the
\* values of two properties or of two orders, inside an id, a status or a
\* side at different characters, or inside a base64 string with a shift
\* that is a multiple of 4.  The outer catch at lines 138-140, and the
\* worker sleeps
StoreWriteFails ==
    /\ wpc = "store"
    /\ \E k \in Stops("orders", OrdersLen(orders)) :
           /\ size' = StoppedAt("orders", k)
           /\ IF k = 0 THEN ORDERS_FILE' = ORDERS_FILE
              ELSE IF size.orders <= k THEN ORDERS_FILE' = <<>>
              ELSE IF LinesUp(orders, ORDERS_FILE, k)
              THEN ORDERS_FILE' = Spliced(orders, ORDERS_FILE, k)
              ELSE IF Joins(orders, ORDERS_FILE, k)
              THEN ORDERS_FILE' = Joined(orders, ORDERS_FILE, k)
              ELSE /\ Breaks(orders, ORDERS_FILE, k)
                   /\ ORDERS_FILE' = <<>>
    /\ Asleep
    /\ UNCHANGED <<SETTLEMENTS_FILE, BALANCES_FILE, intake, now>>

\* line 137 raises
WriteOrdersFails == StoreOpenFails \/ StoreWriteFails

\* some file access of the pass raises
AccessFails ==
    ReadOrdersFails \/ LedgerAccessFails \/ BalancesAccessFails \/ WriteOrdersFails

(***************************************************************************)
(* server.js: POST /orders and POST /reset.                                *)
(***************************************************************************)
\* line 142
Accepted(b) ==
    /\ b.ciphertext.seal # UndefStr
    /\ b.nonce # UndefStr
    /\ b.senderPublicKey # UndefStr

\* lines 146-157
Record(b, id, t) ==
    [id |-> id, ciphertext |-> b.ciphertext, nonce |-> b.nonce,
     senderPublicKey |-> b.senderPublicKey, status |-> "queued",
     createdAt |-> t, side |-> b.side, price |-> b.price, amount |-> b.amount,
     torn |-> Intact]

\* lines 141-142: a required field is missing, the handler answers 400
\* before it touches the store
PostOrdersRefused(b) ==
    /\ spc = "idle"
    /\ ~Accepted(b)
    /\ UNCHANGED vars

\* lines 141-158: the store is parsed and the new record pushed; when the
\* text does not parse, JSON.parse raises at line 144 and the request is
\* answered 500 with the store untouched
PostOrdersRead(b) ==
    /\ spc = "idle"
    /\ Accepted(b)
    /\ IF OrdersParse
       THEN /\ nextId <= MaxOrders
            /\ now < MaxClock
            /\ spc' = "open"
            /\ reqOrders' = Append(ORDERS_FILE, Record(b, nextId, now + 1))
            /\ nextId' = nextId + 1
            /\ now' = now + 1
       ELSE UNCHANGED <<intake, now>>
    /\ UNCHANGED <<files, worker>>

\* line 159, the open of fs.writeFileSync: the store is truncated
PostOrdersOpen ==
    /\ spc = "open"
    /\ spc' = "write"
    /\ ORDERS_FILE' = <<>>
    /\ size' = Truncated("orders")
    /\ UNCHANGED <<SETTLEMENTS_FILE, BALANCES_FILE, worker, reqOrders, nextId,
                   now>>

\* lines 159-160: the text of the handler's copy is written
PostOrdersWrite ==
    /\ spc = "write"
    /\ ORDERS_FILE' = IF Whole("orders", OrdersLen(reqOrders))
                      THEN reqOrders ELSE <<>>
    /\ size' = Written("orders", OrdersLen(reqOrders))
    /\ spc' = "idle"
    /\ reqOrders' = <<>>
    /\ UNCHANGED <<SETTLEMENTS_FILE, BALANCES_FILE, worker, nextId, now>>

\* mutant of Minimal: the agreed price is left in the entries
MinimalWithPrice(ledger) ==
    [k \in 1..Len(ledger) |->
        [id |-> ledger[k].id, timestamp |-> ledger[k].timestamp,
         price |-> ledger[k].price]]

\* lines 175-181: the body of the response of GET /matches, `minimal`
Minimal(ledger) ==
    [k \in 1..Len(ledger) |->
        [id |-> ledger[k].id, timestamp |-> ledger[k].timestamp]]

\* mutant of Reset: the orders are put back in the queue as well
ResetRequeue ==
    /\ spc = "idle"
    /\ spc' = "reset"
    /\ SETTLEMENTS_FILE' = <<>>
    /\ size' = Truncated("settlements")
    /\ ORDERS_FILE' = [k \in 1..Len(ORDERS_FILE) |->
                          [ORDERS_FILE[k] EXCEPT !.status = "queued"]]
    /\ UNCHANGED <<BALANCES_FILE, worker, reqOrders, nextId, now>>

\* lines 189-191, the open of fs.writeFileSync: the ledger is truncated.
\* The handlers of the server run one after the other, each to its end
Reset ==
    /\ spc = "idle"
    /\ spc' = "reset"
    /\ SETTLEMENTS_FILE' = <<>>
    /\ size' = Truncated("settlements")
    /\ UNCHANGED <<ORDERS_FILE, BALANCES_FILE, worker, reqOrders, nextId, now>>

\* lines 191-192: the text "[]" is written and the request answered
ResetWrite ==
    /\ spc = "reset"
    /\ spc' = "idle"
    /\ SETTLEMENTS_FILE' = <<>>
    /\ size' = Written("settlements", 2)
    /\ UNCHANGED <<ORDERS_FILE, BALANCES_FILE, worker, reqOrders, nextId, now>>

(***************************************************************************)
(* Specifications.                                                         *)
(***************************************************************************)
\* the two processes interleaved at every file access, the worker stopped
\* and restarted at any point
Next ==
    \/ \E b \in Bodies : PostOrdersRead(b)
    \/ PostOrdersOpen
    \/ PostOrdersWrite
    \/ Reset
    \/ ResetWrite
    \/ StartPass
    \/ ReadOrders
    \/ ScanOrder
    \/ PushSettlement
    \/ WriteSettlement
    \/ UpdateBalances
    \/ WriteBalances
    \/ EndPass
    \/ WriteOrders
    \/ Crash

Spec == Init /\ [][Next]_vars

\* a submit that starts while the worker sleeps
SubmitWhileAsleep(b) == wpc = "idle" /\ PostOrdersRead(b)

\* a pass that starts when no submit is under way
PassAfterSubmit == spc = "idle" /\ StartPass

\* the intake and the worker take turns: a submit runs from its read to its
\* write while the worker sleeps, a pass runs from its read to its write
\* with no submit inside; no crash, no Reset
SeqNext ==
    \/ \E b \in Bodies : SubmitWhileAsleep(b)
    \/ PostOrdersOpen
    \/ PostOrdersWrite
    \/ PassAfterSubmit
    \/ ReadOrders
    \/ ScanOrder
    \/ PushSettlement
    \/ WriteSettlement
    \/ UpdateBalances
    \/ WriteBalances
    \/ EndPass
    \/ WriteOrders

SpecSeq == Init /\ [][SeqNext]_vars

\* the two processes interleaved at every file access; no crash, no Reset
RaceNext ==
    \/ \E b \in Bodies : PostOrdersRead(b)
    \/ PostOrdersOpen
    \/ PostOrdersWrite
    \/ StartPass
    \/ ReadOrders
    \/ ScanOrder
    \/ PushSettlement
    \/ WriteSettlement
    \/ UpdateBalances
    \/ WriteBalances
    \/ EndPass
    \/ WriteOrders

SpecRace == Init /\ [][RaceNext]_vars

\* as SpecSeq, and the worker may be stopped inside a pass and restarted
CrashNext == SeqNext \/ Crash

SpecCrash == Init /\ [][CrashNext]_vars

\* as SpecSeq, the intake being offered DecodeBodies
DecodeNext ==
    \/ \E b \in DecodeBodies : SubmitWhileAsleep(b)
    \/ PostOrdersOpen
    \/ PostOrdersWrite
    \/ PassAfterSubmit
    \/ ReadOrders
    \/ ScanOrder
    \/ PushSettlement
    \/ WriteSettlement
    \/ UpdateBalances
    \/ WriteBalances
    \/ EndPass
    \/ WriteOrders

SpecDecode == Init /\ [][DecodeNext]_vars

\* as SpecSeq, and any file access of a pass may raise
IoNext == SeqNext \/ AccessFails

SpecIo == Init /\ [][IoNext]_vars

\* everything but Reset: the two processes interleaved at every file
\* access, the worker stopped and restarted at any point, any file access
\* of a pass raising
NoResetNext == RaceNext \/ Crash \/ AccessFails

SpecNoReset == Init /\ [][NoResetNext]_vars

\* as SpecRace, the intake being offered incomplete requests as well
SubmitNext ==
    \/ \E b \in MissingBodies : PostOrdersRefused(b)
    \/ RaceNext

SpecSubmit == Init /\ [][SubmitNext]_vars

\* as SpecSeq, under the scheduling of the code: the worker's loop is
\* `while (true)` around a pass and a sleep of 1500 ms, and the synchronous
\* code of a pass and of a request handler runs to its end; no submit is
\* ever required to arrive
FairSeq ==
    /\ SpecSeq
    /\ WF_vars(PassAfterSubmit)
    /\ WF_vars(ReadOrders)
    /\ WF_vars(ScanOrder)
    /\ WF_vars(PushSettlement)
    /\ WF_vars(WriteSettlement)
    /\ WF_vars(UpdateBalances)
    /\ WF_vars(WriteBalances)
    /\ WF_vars(EndPass)
    /\ WF_vars(WriteOrders)
    /\ WF_vars(PostOrdersOpen)
    /\ WF_vars(PostOrdersWrite)

\* the worker's loop with failing file accesses and failing orders: as
\* SpecIo, the intake being offered LoopBodies
LoopNext ==
    \/ \E b \in LoopBodies : SubmitWhileAsleep(b)
    \/ PostOrdersOpen
    \/ PostOrdersWrite
    \/ PassAfterSubmit
    \/ ReadOrders
    \/ ScanOrder
    \/ PushSettlement
    \/ WriteSettlement
    \/ UpdateBalances
    \/ WriteBalances
    \/ EndPass
    \/ WriteOrders
    \/ AccessFails

\* under the scheduling of the code: the sleep of line 141 ends and the
\* loop comes round to the next pass; inside a pass every file access,
\* the read of line 31 included, returns or raises, whichever, and the
\* synchronous code goes on from there.  No access is required ever to
\* return: every pass may end at line 31
FairLoop ==
    /\ Init /\ [][LoopNext]_vars
    /\ WF_vars(PassAfterSubmit)
    /\ WF_vars(ReadOrders \/ ReadOrdersFails)
    /\ WF_vars(ScanOrder)
    /\ WF_vars(PushSettlement \/ LedgerOpenFails)
    /\ WF_vars(WriteSettlement \/ LedgerWriteFails)
    /\ WF_vars(UpdateBalances \/ BalancesReadFails)
    /\ WF_vars(WriteBalances \/ BalancesWriteFails)
    /\ WF_vars(EndPass \/ StoreOpenFails)
    /\ WF_vars(WriteOrders \/ StoreWriteFails)
    /\ WF_vars(PostOrdersOpen)
    /\ WF_vars(PostOrdersWrite)

\* as SpecCrash, the intake being offered OwnerBodies
OwnerNext ==
    \/ \E b \in OwnerBodies : SubmitWhileAsleep(b)
    \/ PostOrdersOpen
    \/ PostOrdersWrite
    \/ PassAfterSubmit
    \/ ReadOrders
    \/ ScanOrder
    \/ PushSettlement
    \/ WriteSettlement
    \/ UpdateBalances
    \/ WriteBalances
    \/ EndPass
    \/ WriteOrders
    \/ Crash

SpecOwner == Init /\ [][OwnerNext]_vars

\* as SpecSeq, the intake being offered OptionalBodies; demo orders alone,
\* so no pass reaches the balance update
OptionalNext ==
    \/ \E b \in OptionalBodies : SubmitWhileAsleep(b)
    \/ PostOrdersOpen
    \/ PostOrdersWrite
    \/ PassAfterSubmit
    \/ ReadOrders
    \/ ScanOrder
    \/ PushSettlement
    \/ WriteSettlement
    \/ EndPass
    \/ WriteOrders

SpecOptional == Init /\ [][OptionalNext]_vars

\* the two processes interleaved at every file access and Reset served at
\* any point, the intake being offered LoopBodies; no crash
ResetNext ==
    \/ \E b \in LoopBodies : PostOrdersRead(b)
    \/ PostOrdersOpen
    \/ PostOrdersWrite
    \/ Reset
    \/ ResetWrite
    \/ StartPass
    \/ ReadOrders
    \/ ScanOrder
    \/ PushSettlement
    \/ WriteSettlement
    \/ UpdateBalances
    \/ WriteBalances
    \/ EndPass
    \/ WriteOrders

SpecReset == Init /\ [][ResetNext]_vars

(***************************************************************************)
(* Vocabulary of the properties.                                           *)
(***************************************************************************)
\* the ids of the two orders a settlement was made from
Refs(s) == {s.id[1], s.id[2]}

Ledger == 1..Len(SETTLEMENTS_FILE)

Store == 1..Len(ORDERS_FILE)

\* some record of the durable store has this id and this status
StoredAs(id, status) ==
    \E k \in Store : ORDERS_FILE[k].id = id /\ ORDERS_FILE[k].status = status

Stored(id) == \E k \in Store : ORDERS_FILE[k].id = id

\* the ids whose POST /orders has written the store and answered
Answered ==
    {id \in 1..(nextId - 1) : ~(spc \in {"open", "write"} /\ id = nextId - 1)}

\* the envelope of the order fails authentication
Forged(o) == ~IsDemo(o) /\ Open(o).tag = "null"

\* an order's terms resolve: read directly (demo) or decrypted and parsed
Resolves(o) == IsDemo(o) \/ Open(o).tag = "json"

ResolvedSide(o) == IF IsDemo(o) THEN o.side ELSE Open(o).json.side

ResolvedPrice(o) == IF IsDemo(o) THEN o.price ELSE Open(o).json.price

\* the amount an order was submitted for: decrypted when it decrypts
SubmittedAmount(o) ==
    IF ~IsDemo(o) /\ Open(o).tag = "json" THEN Open(o).json.amount
                                           ELSE o.amount

\* two orders the matcher's contract pairs: opposite sides, equal price
Eligible(a, b) ==
    /\ a.id # b.id
    /\ Resolves(a) /\ Resolves(b)
    /\ {ResolvedSide(a), ResolvedSide(b)} = {"buy", "sell"}
    /\ ResolvedPrice(a) = ResolvedPrice(b)

\* the signed amount a settlement owes the balance entry `key`
Delta(s, key) ==
    (IF key = BalanceKey(s.buy, "buyer") THEN 0 - s.amount * s.price ELSE 0)
    + (IF key = BalanceKey(s.sell, "seller") THEN s.amount * s.price ELSE 0)

RECURSIVE LedgerTotal(_, _)
LedgerTotal(ledger, key) ==
    IF ledger = <<>> THEN 0
    ELSE Delta(Head(ledger), key) + LedgerTotal(Tail(ledger), key)

\* the balance entries a ledger speaks of, and those on file
Entries ==
    DOMAIN BALANCES_FILE
    \cup {BalanceKey(SETTLEMENTS_FILE[k].buy, "buyer") : k \in Ledger}
    \cup {BalanceKey(SETTLEMENTS_FILE[k].sell, "seller") : k \in Ledger}

\* the worker has scanned every order of the pass and is about to write
PassDone == wpc = "scan" /\ cursor > Len(orders)

\* no fs.writeFileSync is between its open and its write
NoWriteUnderWay ==
    wpc \notin {"append", "book", "store"} /\ spc \notin {"write", "reset"}

(***************************************************************************)
(* Claims.                                                                 *)
(***************************************************************************)
\* C1: an order whose submit completed while a pass was in progress is
\* still in the durable order store once that pass has ended: whenever the
\* worker is between passes, every order whose POST /orders has answered is
\* a record of the store (looked at when no write of a file is under way).
C1_SubmitSurvivesPass ==
    (wpc = "idle" /\ NoWriteUnderWay) => \A id \in Answered : Stored(id)

\* C2: in every durable state a matched pair is all-or-nothing: a
\* settlement in the ledger has both its orders FILLED in the order store
\* and its balance update on file; a FILLED order and a balance entry have
\* their settlement in the ledger.
C2_AllOrNothing ==
    /\ \A k \in Ledger : \A id \in Refs(SETTLEMENTS_FILE[k]) :
           StoredAs(id, "filled")
    /\ \A k \in Store : ORDERS_FILE[k].status = "filled" =>
           \E j \in Ledger : ORDERS_FILE[k].id \in Refs(SETTLEMENTS_FILE[j])
    /\ \A key \in Entries :
           Held(BALANCES_FILE, key) = LedgerTotal(SETTLEMENTS_FILE, key)

\* C3: when the worker dies after appending a settlement and before the
\* order store is written, the ledger never holds more than one settlement
\* for that pair of orders, whatever number of passes follow the restart.
C3_OneSettlementPerPairAfterCrash ==
    \A j, k \in Ledger :
        Refs(SETTLEMENTS_FILE[j]) = Refs(SETTLEMENTS_FILE[k]) => j = k

\* C4: with no crash and no concurrent intake write, once a pair is settled
\* no later settlement references either of its orders: no two settlements
\* of the (append-only) ledger share an order.
C4_NoSecondSettlement ==
    \A j, k \in Ledger :
        j # k => Refs(SETTLEMENTS_FILE[j]) \cap Refs(SETTLEMENTS_FILE[k]) = {}

\* C4 witness: a pair was settled and written back FILLED, a later pass has
\* scanned the whole store, and the store holds a QUEUED order that the
\* matcher's contract pairs with one of the settled orders.
C4_Witness ==
    /\ PassDone
    /\ orders = ORDERS_FILE
    /\ \E j \in Ledger : \A id \in Refs(SETTLEMENTS_FILE[j]) :
           StoredAs(id, "filled")
    /\ \E a, b \in Store :
           /\ ORDERS_FILE[a].status = "filled"
           /\ ORDERS_FILE[b].status = "queued"
           /\ Eligible(ORDERS_FILE[a], ORDERS_FILE[b])

\* C5: a pass settles every QUEUED resolvable subject that has an eligible
\* counterpart when it is reached, exactly once.  Statuses only leave QUEUED
\* during a pass, so at the end of the scan no two orders of the pass are
\* both still QUEUED and eligible for each other (the first of them had a
\* counterpart when it was reached and got no settlement), and no order is
\* in two settlements.
C5_EligibleSubjectSettledOnce ==
    /\ PassDone =>
           \A a, b \in 1..Len(orders) :
               ~ /\ orders[a].status = "queued"
                 /\ orders[b].status = "queued"
                 /\ Eligible(orders[a], orders[b])
    /\ \A j, k \in Ledger : \A id \in Refs(SETTLEMENTS_FILE[j]) :
           id \in Refs(SETTLEMENTS_FILE[k]) => j = k

\* C6: every settlement's amount is the minimum of its buy leg's and its
\* sell leg's amount, and exceeds the amount of neither matched order.
C6_AmountIsMinOfLegs ==
    \A k \in Ledger :
        LET s == SETTLEMENTS_FILE[k]
        IN  /\ s.amount = MathMin(s.buy.amount, s.sell.amount)
            /\ \A j \in Store :
                   ORDERS_FILE[j].id \in Refs(s) =>
                       s.amount <= SubmittedAmount(ORDERS_FILE[j])

\* C7: the loop iteration that appends a settlement (demo or encrypted)
\* leaves the balance ledger changed by exactly -(amount*price) on the
\* buyer's entry and +(amount*price) on the seller's entry.
\* On the demo path the iteration ends with the write of the ledger; on the
\* encrypted path the balances are computed from the file (line 121) and
\* written (line 125).
C7_BalanceDeltas ==
    [][ LET s == settlements[Len(settlements)]
            keys == DOMAIN BALANCES_FILE
                        \cup {BalanceKey(s.buy, "buyer"),
                              BalanceKey(s.sell, "seller")}
        IN  /\ (wpc = "append" /\ wpc' = "scan") =>
                   \A key \in keys :
                       Held(BALANCES_FILE', key)
                           = Held(BALANCES_FILE, key) + Delta(s, key)
            /\ (wpc = "balance" /\ wpc' = "book") =>
                   \A key \in keys \cup DOMAIN balances' :
                       Held(balances', key)
                           = Held(BALANCES_FILE, key) + Delta(s, key)
            /\ (wpc = "book" /\ wpc' = "scan") => BALANCES_FILE' = balances
      ]_vars

\* C8: two matched orders of different amounts get exactly one settlement,
\* both are FILLED once the pass has ended, and neither takes part in a
\* later match: no other settlement references an order of that one.
C8_NoCarryover ==
    \A j \in Ledger :
        LET s == SETTLEMENTS_FILE[j]
        IN  s.buy.amount # s.sell.amount =>
                /\ \A k \in Ledger :
                       k # j => Refs(SETTLEMENTS_FILE[k]) \cap Refs(s) = {}
                /\ wpc = "idle" => \A id \in Refs(s) : ~StoredAs(id, "queued")

\* C9: an order whose envelope fails authentication leaves QUEUED only for
\* REJECTED (status 'bad'), and once the store records it REJECTED it stays
\* REJECTED.
C9_ForgedRejectedForGood ==
    [][ \A k \in 1..Len(ORDERS_FILE') :
            Forged(ORDERS_FILE'[k]) =>
                /\ ORDERS_FILE'[k].status \in {"queued", "bad"}
                /\ \A j \in Store :
                       (ORDERS_FILE[j].id = ORDERS_FILE'[k].id
                        /\ ORDERS_FILE[j].status = "bad")
                           => ORDERS_FILE'[k].status = "bad" ]_vars

\* C10: no settlement of the ledger references an order whose envelope
\* fails authentication.
C10_NoSettlementOfForged ==
    \A k \in Ledger : \A j \in Store :
        ORDERS_FILE[j].id \in Refs(SETTLEMENTS_FILE[k])
            => ~Forged(ORDERS_FILE[j])

(***************************************************************************)
(* C11.                                                                    *)
(***************************************************************************)
\* an encrypted order whose envelope never yields terms
Unresolvable(o) == ~IsDemo(o) /\ Open(o).tag \in {"throw", "text"}

\* C11: when a pass has gone through the store, every encrypted order whose
\* decoding raises or whose plaintext does not parse has been moved to
\* REJECTED ('bad') by it, so that it is not taken up again
C11_UnresolvableRejected ==
    PassDone =>
        \A k \in 1..Len(orders) :
            Unresolvable(orders[k]) => orders[k].status = "bad"

(***************************************************************************)
(* C12.                                                                    *)
(***************************************************************************)
\* C12: in the durable order store the status of an order only ever moves
\* from QUEUED to FILLED or from QUEUED to REJECTED ('bad'): whatever step
\* is taken, an order stored FILLED or REJECTED keeps that status, and a
\* QUEUED one stays QUEUED or takes one of the two
C12_StatusOnlyForward ==
    [][\A j \in Store : \A k \in 1..Len(ORDERS_FILE') :
          ORDERS_FILE'[k].id = ORDERS_FILE[j].id =>
              \/ ORDERS_FILE'[k].status = ORDERS_FILE[j].status
              \/ /\ ORDERS_FILE[j].status = "queued"
                 /\ ORDERS_FILE'[k].status \in {"filled", "bad"}]_vars

(***************************************************************************)
(* C13.                                                                    *)
(***************************************************************************)
\* the orders the running pass has marked FILLED in its copy and the store
\* still has QUEUED: the pairs the pass has settled so far
SettledByThisPass ==
    {orders[k].id : k \in {j \in 1..Len(orders) : orders[j].status = "filled"}}
        \cap {id \in 1..MaxOrders : StoredAs(id, "queued")}

\* C13: when a read or a write of one of the three files fails during a
\* pass, the files hold after the pass what they held before it: the failing
\* access changes none of them, and once it has failed the ledger holds no
\* settlement of a pair settled by this pass
C13_FailedPassLeavesNoTrace ==
    [][AccessFails =>
          /\ files' = files
          /\ \A k \in Ledger :
                 Refs(SETTLEMENTS_FILE[k]) \cap SettledByThisPass = {}]_vars

(***************************************************************************)
(* C14.                                                                    *)
(***************************************************************************)
\* C14: as long as Reset is not invoked the ledger only grows at its end:
\* whatever step is taken, every settlement of the ledger is still there
\* afterwards, with the same content and at the same position.  The
\* worker rewrites the whole file (lines 61, 113): what it read is what the
\* file holds when it opens it, and once it has left the write the file
\* holds what it read, in place, before anything else.
StartsWith(ledger, head) ==
    /\ Len(ledger) >= Len(head)
    /\ SubSeq(ledger, 1, Len(head)) = head

\* the ledger as the worker read it: its copy without the settlement pushed
AsRead == SubSeq(settlements, 1, Len(settlements) - 1)

C14_LedgerAppendOnly ==
    [][ /\ (wpc # "append" /\ wpc' # "append") =>
               StartsWith(SETTLEMENTS_FILE', SETTLEMENTS_FILE)
        /\ (wpc # "append" /\ wpc' = "append") =>
               SETTLEMENTS_FILE = SubSeq(settlements', 1, Len(settlements') - 1)
        /\ (wpc = "append" /\ wpc' # "append") =>
               StartsWith(SETTLEMENTS_FILE', AsRead) ]_vars

(***************************************************************************)
(* C15.                                                                    *)
(***************************************************************************)
\* C15: the id of a settlement is a key of the pair, whichever of the two
\* orders is the subject: for the pair the worker is about to settle, the
\* settlement built with the two orders in exchanged roles has the same id
C15_IdOrderIndependent ==
    wpc = "settle" =>
        NewSettlement(orders, cursor, opposite, now).id
            = NewSettlement(orders, opposite, cursor, now).id

(***************************************************************************)
(* C16.                                                                    *)
(***************************************************************************)
\* a leg that is none of the legs the worker writes
OtherLeg ==
    [side |-> "sell", price |-> 99, amount |-> 99, owner |-> "mallory",
     ownerAddress |-> "0xmallory", timestamp |-> UndefStr,
     senderPublicKey |-> "pk0", torn |-> 0]

\* the ledger with the same ids and timestamps and, in every settlement,
\* other values in the fields named by `fields`
Veiled(ledger, fields) ==
    [k \in 1..Len(ledger) |->
        [ledger[k] EXCEPT
            !.buy = IF "buy" \in fields THEN OtherLeg ELSE @,
            !.sell = IF "sell" \in fields THEN OtherLeg ELSE @,
            !.price = IF "price" \in fields THEN 99 ELSE @,
            !.amount = IF "amount" \in fields THEN 99 ELSE @]]

\* C16: the response of GET /matches has one entry per settlement of the
\* ledger, in the ledger's order, made of the settlement's id and timestamp
\* and of nothing else; a ledger with the same ids and timestamps and other
\* legs, price or amount gets the same response
C16_ResponseHidesTerms ==
    /\ Len(Minimal(SETTLEMENTS_FILE)) = Len(SETTLEMENTS_FILE)
    /\ \A k \in Ledger :
           /\ DOMAIN Minimal(SETTLEMENTS_FILE)[k] = {"id", "timestamp"}
           /\ Minimal(SETTLEMENTS_FILE)[k].id = SETTLEMENTS_FILE[k].id
           /\ Minimal(SETTLEMENTS_FILE)[k].timestamp = SETTLEMENTS_FILE[k].timestamp
    /\ \A fields \in SUBSET {"buy", "sell", "price", "amount"} :
           Minimal(Veiled(SETTLEMENTS_FILE, fields)) = Minimal(SETTLEMENTS_FILE)

\* the ledger holds two settlements, one of them between encrypted orders
\* with owner keys in its legs, and a veiled ledger differs from it
C16_Witness ==
    /\ Len(SETTLEMENTS_FILE) >= 2
    /\ \E k \in Ledger : SETTLEMENTS_FILE[k].buy.owner # UndefStr
    /\ Veiled(SETTLEMENTS_FILE, {"buy", "price"}) # SETTLEMENTS_FILE

(***************************************************************************)
(* C17.                                                                    *)
(***************************************************************************)
\* a submit that carries the three required fields is taken in: the handler
\* gets past its read of the store (line 144), which it does exactly when
\* the store's text parses
CompleteSubmitAccepted == OrdersParse

\* C17: a submit that lacks ciphertext, nonce or senderPublicKey leaves the
\* order store as it is.  Any other submit, arriving when no write of a file
\* is under way, is taken in; it makes of the store it parsed the same
\* records, content and position, with exactly one record behind them,
\* QUEUED and under an id that no stored order has, and that is what it
\* writes
C17_SubmitAppendsOne ==
    /\ []((spc = "idle" /\ NoWriteUnderWay) => CompleteSubmitAccepted)
    /\ [][ /\ (\E b \in MissingBodies : PostOrdersRefused(b)) =>
                  ORDERS_FILE' = ORDERS_FILE
           /\ (spc = "idle" /\ spc' = "open") =>
                  /\ Len(reqOrders') = Len(ORDERS_FILE) + 1
                  /\ SubSeq(reqOrders', 1, Len(ORDERS_FILE)) = ORDERS_FILE
                  /\ reqOrders'[Len(reqOrders')].status = "queued"
                  /\ ~Stored(reqOrders'[Len(reqOrders')].id)
                  /\ files' = files
           /\ (spc = "write" /\ spc' = "idle") =>
                  /\ ORDERS_FILE' = reqOrders
                  /\ OrdersParse'
                  /\ ~Stored(reqOrders[Len(reqOrders)].id) ]_vars

(***************************************************************************)
(* C18.                                                                    *)
(***************************************************************************)
\* the pass found the order at position k QUEUED in the store, its terms
\* resolve, and every other order it found QUEUED has the same resolved side
\* or another resolved price (an order that does not open has neither)
NoCounterpart(k) ==
    /\ ORDERS_FILE[k].status = "queued"
    /\ Resolves(orders[k])
    /\ \A j \in 1..Len(orders) :
           (j # k /\ ORDERS_FILE[j].status = "queued") =>
               \/ ResolvedSide(orders[j]) = ResolvedSide(orders[k])
               \/ ResolvedPrice(orders[j]) # ResolvedPrice(orders[k])

\* C18: an order that has no eligible counterpart among the QUEUED orders is
\* still QUEUED when the pass has gone through the store, and the ledger
\* holds no settlement that refers to it
C18_UnmatchedStaysQueued ==
    PassDone =>
        \A k \in 1..Len(orders) :
            NoCounterpart(k) =>
                /\ orders[k].status = "queued"
                /\ \A s \in Ledger : orders[k].id \notin Refs(SETTLEMENTS_FILE[s])

(***************************************************************************)
(* C19.                                                                    *)
(***************************************************************************)
\* the record carries an envelope, not the placeholders of a demo order
HasEnvelope(o) == ~(o.ciphertext.seal = "demo" /\ o.nonce = "demo")

\* the record carries cleartext terms
HasClearTerms(o) ==
    o.side # UndefStr \/ o.price # UndefNum \/ o.amount # UndefNum

\* C19: every record of the order store carries exactly one representation
\* of its terms: an envelope and no cleartext side, price or amount, or
\* cleartext terms and no envelope; none carries both
C19_OneRepresentation ==
    \A k \in Store :
        /\ HasEnvelope(ORDERS_FILE[k]) \/ HasClearTerms(ORDERS_FILE[k])
        /\ ~(HasEnvelope(ORDERS_FILE[k]) /\ HasClearTerms(ORDERS_FILE[k]))

(***************************************************************************)
(* C20.                                                                    *)
(***************************************************************************)
\* a step of POST /reset: its open of the ledger or its write of "[]"
ResetStep == spc' # spc /\ "reset" \in {spc, spc'}

\* C20: Reset empties the ledger and changes nothing else.  Each step of
\* Reset, and any step that takes settlements away, leaves a ledger for
\* which GET /matches answers the empty list, and leaves the order store,
\* statuses included, and the balance ledger as they are.  And an order
\* that was settled is not matched again: a step that appends a settlement
\* refers to no order that is FILLED in the store or in the pass's copy
C20_ResetOnlyEmptiesLedger ==
    [][/\ (ResetStep \/ Len(SETTLEMENTS_FILE') < Len(SETTLEMENTS_FILE)) =>
              /\ SETTLEMENTS_FILE' = <<>>
              /\ Minimal(SETTLEMENTS_FILE') = <<>>
              /\ ORDERS_FILE' = ORDERS_FILE
              /\ BALANCES_FILE' = BALANCES_FILE
              /\ size'.orders = size.orders
              /\ size'.balances = size.balances
       /\ (SETTLEMENTS_FILE' # SETTLEMENTS_FILE /\ SETTLEMENTS_FILE' # <<>>) =>
              \A id \in Refs(SETTLEMENTS_FILE'[Len(SETTLEMENTS_FILE')]) :
                  /\ ~StoredAs(id, "filled")
                  /\ \A k \in 1..Len(orders) :
                         orders[k].id = id => orders[k].status = "queued"]_vars

\* after a Reset (the ledger is empty although the store has FILLED orders)
\* a pass has gone through the store and has left QUEUED an order that one
\* of the FILLED orders would be a counterpart of
C20_Witness ==
    /\ PassDone
    /\ ~changed
    /\ SETTLEMENTS_FILE = <<>>
    /\ \E j, k \in Store :
           /\ ORDERS_FILE[j].status = "filled"
           /\ ORDERS_FILE[k].status = "queued"
           /\ k <= Len(orders)
           /\ orders[k] = ORDERS_FILE[k]
           /\ Eligible(ORDERS_FILE[j], ORDERS_FILE[k])

(***************************************************************************)
(* C21.                                                                    *)
(***************************************************************************)
\* two orders of the same mode that the matcher's contract pairs
SameModePair(a, b) == IsDemo(a) = IsDemo(b) /\ Eligible(a, b)

\* C21: an order whose own decoding fails does not change what a pass does
\* to the other orders: when the pass has gone through the store, no two
\* orders of one mode that resolve to opposite sides at one price are both
\* left QUEUED, as none would be if the failing order were not in the store
C21_FailureIsolated ==
    PassDone =>
        \A a, b \in 1..Len(orders) :
            ~ /\ orders[a].status = "queued"
              /\ orders[b].status = "queued"
              /\ SameModePair(orders[a], orders[b])

(***************************************************************************)
(* C22.                                                                    *)
(***************************************************************************)
\* the positions of the QUEUED orders that are eligible counterparts of the
\* subject of the running iteration
Counterparts ==
    {k \in 1..Len(orders) :
        /\ orders[k].status = "queued"
        /\ Eligible(orders[cursor], orders[k])}

\* C22: when several QUEUED orders are eligible counterparts of a subject,
\* the order the worker selects is the one of them that comes first in the
\* store, whatever the amounts and the createdAt values
C22_FirstEligibleSelected ==
    (wpc = "settle" /\ Cardinality(Counterparts) >= 2) =>
        /\ opposite \in Counterparts
        /\ \A k \in Counterparts : opposite <= k

(***************************************************************************)
(* C23.                                                                    *)
(***************************************************************************)
\* the store the pass parsed holds two QUEUED orders and nothing else: a
\* demo order that is a buy or a sell, and an encrypted order that opens
DemoAndSealed ==
    /\ Len(orders) = 2
    /\ Len(ORDERS_FILE) = 2
    /\ \A k \in 1..2 : ORDERS_FILE[k].status = "queued"
    /\ \E d, e \in 1..2 :
           /\ IsDemo(orders[d])
           /\ orders[d].side \in {"buy", "sell"}
           /\ ~IsDemo(orders[e])
           /\ Open(orders[e]).tag = "json"

\* C23: a QUEUED demo order and a QUEUED encrypted order that decrypts are
\* matched by the pass if and only if the demo order's side and price and
\* the encrypted order's decrypted side and price are opposite and equal,
\* whichever comes first in the store and whatever cleartext is stored
\* beside the ciphertext
C23_OnePredicateAcrossModes ==
    (PassDone /\ DemoAndSealed) =>
        ((orders[1].status = "filled" /\ orders[2].status = "filled")
            <=> Eligible(orders[1], orders[2]))

(***************************************************************************)
(* C24.                                                                    *)
(***************************************************************************)
\* a step of a pass that is not its first and not its last
InsidePass == wpc \notin {"idle", "read"} /\ wpc' # "idle"

\* a step that puts a settlement at the end of the ledger
Appends ==
    SETTLEMENTS_FILE' # SETTLEMENTS_FILE /\ SETTLEMENTS_FILE' # <<>>

\* C24: within one pass no order takes part in two settlements.  The two
\* orders of a settlement that a pass appends are QUEUED in the pass's copy
\* before the step and FILLED in it after the step, and an order that is
\* FILLED in the pass's copy stays so up to the end of the pass; so a
\* consumed order is neither subject nor counterpart again in that pass
C24_ConsumedWithinPass ==
    [][/\ Appends =>
              \A k \in 1..Len(orders) :
                  orders[k].id \in Refs(SETTLEMENTS_FILE'[Len(SETTLEMENTS_FILE')]) =>
                      /\ orders[k].status = "queued"
                      /\ orders'[k].status = "filled"
       /\ InsidePass =>
              /\ Len(orders') = Len(orders)
              /\ \A k \in 1..Len(orders) :
                     orders[k].status = "filled" => orders'[k].status = "filled"]_vars

\* one pass has settled a pair and has left QUEUED a third order that one
\* of the two would be a counterpart of: one settlement, not two
C24_Witness ==
    /\ PassDone
    /\ Len(orders) = 3
    /\ Len(ORDERS_FILE) = 3
    /\ Len(SETTLEMENTS_FILE) = 1
    /\ \E j, k \in 1..3 :
           /\ ORDERS_FILE[j].status = "queued"
           /\ orders[j].status = "filled"
           /\ orders[k].status = "queued"
           /\ Eligible(orders[j], orders[k])

(***************************************************************************)
(* C25.                                                                    *)
(***************************************************************************)
\* the store holds the orders a and b QUEUED, and they are eligible
\* counterparts of each other
QueuedPair(a, b) ==
    \E j, k \in Store :
        /\ ORDERS_FILE[j].id = a /\ ORDERS_FILE[j].status = "queued"
        /\ ORDERS_FILE[k].id = b /\ ORDERS_FILE[k].status = "queued"
        /\ Eligible(ORDERS_FILE[j], ORDERS_FILE[k])

\* C25: QUEUED orders are taken up again by every later pass: once the
\* store holds two QUEUED orders that resolve to opposite sides at one
\* price, whenever the second of them arrived, at least one of the two is
\* FILLED in the end
C25_EligiblePairFilled ==
    \A a, b \in 1..MaxOrders :
        QueuedPair(a, b) ~> (StoredAs(a, "filled") \/ StoredAs(b, "filled"))

(***************************************************************************)
(* C26.                                                                    *)
(***************************************************************************)
\* C26: the worker's loop has no terminal state: every pass that has
\* started ends and the worker is idle again, also when a file access
\* raises or an order fails to decrypt, and whenever the worker is idle a
\* new pass starts later on.  That is: at every moment the worker is idle
\* now or later, and at every moment a pass starts later.  A pass whose
\* read of the store raises, or finds a text that does not parse, is a pass
\* that ends at line 31 (catch 138)
C26_LoopNeverStops ==
    /\ []<>(wpc = "idle")
    /\ []<>(wpc = "read")

\* a pass has ended although an access of it raised (the ledger holds a
\* settlement of an order that the store still has QUEUED) and although an
\* order of it failed to decrypt; the worker is idle
C26_Witness ==
    /\ wpc = "idle"
    /\ \E k \in Store : ORDERS_FILE[k].status = "bad"
    /\ \E s \in Ledger : \E id \in Refs(SETTLEMENTS_FILE[s]) : StoredAs(id, "queued")

(***************************************************************************)
(* C27.                                                                    *)
(***************************************************************************)
RECURSIVE SumOver(_, _)
\* the sum of the entries of b under the keys of S
SumOver(b, S) ==
    IF S = {} THEN 0
    ELSE LET k == CHOOSE x \in S : TRUE
         IN  b[k] + SumOver(b, S \ {k})

\* C27: the balance ledger conserves notional: whatever settlements were
\* made, the entries of the balance ledger sum to zero, also when a leg's
\* decrypted terms have no `owner` or name the owner by `ownerAddress`
C27_BalancesSumToZero ==
    SumOver(BALANCES_FILE, DOMAIN BALANCES_FILE) = 0

(***************************************************************************)
(* C28.                                                                    *)
(***************************************************************************)
\* C28: in every settlement the buy leg carries side buy, the sell leg
\* carries side sell, and the two legs come from the two different orders
\* of the pair, whatever side values the matched orders were accepted with
C28_LegsBySide ==
    \A k \in Ledger :
        /\ SETTLEMENTS_FILE[k].buy.side = "buy"
        /\ SETTLEMENTS_FILE[k].sell.side = "sell"
        /\ SETTLEMENTS_FILE[k].buy # SETTLEMENTS_FILE[k].sell
        /\ SETTLEMENTS_FILE[k].id[1] # SETTLEMENTS_FILE[k].id[2]


\* ---------------------------------------------------------------------
\* Interleaved submits and double settlement
\* ---------------------------------------------------------------------

\* the settlements of the ledger that reference the order id
ReferencedBy(id) == {k \in Ledger : id \in Refs(SETTLEMENTS_FILE[k])}

\* C29: under any interleaving of intake submits (whole-collection read,
\* push, write) with worker passes, with no crash and no Reset, no order id
\* is referenced by more than one settlement of the ledger.
C29_OneSettlementPerOrder ==
    \A id \in 1..MaxOrders : Cardinality(ReferencedBy(id)) <= 1


\* ---------------------------------------------------------------------
\* Agreement of the order store and the ledger between passes
\* ---------------------------------------------------------------------

\* C30: when submits happen only between passes and there is no crash, I/O
\* failure or Reset, then whenever the worker is idle between passes an
\* order is FILLED in the durable order store if and only if exactly one
\* settlement of the ledger references it, and every settlement references
\* two distinct orders that are both FILLED.
C30_StoreAgreesWithLedger ==
    (wpc = "idle" /\ NoWriteUnderWay) =>
        /\ \A k \in Store :
               ORDERS_FILE[k].status = "filled"
                   <=> Cardinality(ReferencedBy(ORDERS_FILE[k].id)) = 1
        /\ \A s \in Ledger :
               /\ SETTLEMENTS_FILE[s].id[1] # SETTLEMENTS_FILE[s].id[2]
               /\ \A id \in Refs(SETTLEMENTS_FILE[s]) : StoredAs(id, "filled")


\* C30 witness: the worker sleeps after a pass that settled a pair; both
\* orders of the settlement are stored FILLED and a third order, which the
\* matcher's contract pairs with one of them, is stored QUEUED and is
\* referenced by no settlement.
C30_Witness ==
    /\ wpc = "idle"
    /\ Len(SETTLEMENTS_FILE) = 1
    /\ \A id \in Refs(SETTLEMENTS_FILE[1]) : StoredAs(id, "filled")
    /\ \E a, b \in Store :
           /\ ORDERS_FILE[a].status = "filled"
           /\ ORDERS_FILE[b].status = "queued"
           /\ ReferencedBy(ORDERS_FILE[b].id) = {}
           /\ Eligible(ORDERS_FILE[a], ORDERS_FILE[b])


\* ---------------------------------------------------------------------
\* A pass that changes no status writes nothing
\* ---------------------------------------------------------------------

\* a step of the worker process
WorkerStep == worker' # worker

\* a step inside a pass: after the store was parsed, before the sleep
ScanStep == WorkerStep /\ wpc \notin {"idle", "read"} /\ wpc' # "idle"

\* the pass has found a counterpart and is at the ledger
AtLedger == wpc \in {"settle", "append"}

\* C31: a pass in which no order changes status (no match, no rejection)
\* writes none of the three collections, so it overwrites nothing the intake
\* wrote meanwhile.  The flag `changed` is raised by exactly the steps that
\* change a status in the pass's copy, and a step of the worker that starts
\* and ends with the flag down leaves every file as it is.
C31_UnchangedPassWritesNothing ==
    [][ /\ (ScanStep /\ orders' # orders) => changed'
        /\ (ScanStep /\ changed' /\ ~changed) => orders' # orders
        /\ (WorkerStep /\ ~AtLedger /\ ~changed /\ ~changed') => files' = files
      ]_vars

\* C31 witness: a pass has scanned a store with a QUEUED order and changed
\* nothing, the intake has written the store since the pass parsed it, and
\* the pass is about to go to sleep.
C31_Witness ==
    /\ PassDone
    /\ ~changed
    /\ \E k \in 1..Len(orders) : orders[k].status = "queued"
    /\ Len(ORDERS_FILE) > Len(orders)


\* ---------------------------------------------------------------------
\* Reset inside the worker's read-append-write of the ledger
\* ---------------------------------------------------------------------

\* the worker holds the ledger it parsed (lines 48, 101) and has not written
\* it back yet, and the ledger file was emptied meanwhile: the worker is the
\* only appender, so the file differs from the parsed copy only by a Reset
ResetSinceRead == wpc = "append" /\ size.settlements = 2

\* C32: Reset is not undone by a concurrent pass.  When Reset completed
\* between the worker's read of the ledger and its write of the ledger with
\* the new settlement appended, the ledger after that write holds no
\* settlement that existed before the Reset.
C32_ResetNotUndone ==
    [][ (ResetSinceRead /\ SETTLEMENTS_FILE' # SETTLEMENTS_FILE) =>
            \A k \in 1..Len(SETTLEMENTS_FILE') :
                \A j \in 1..Len(AsRead) :
                    SETTLEMENTS_FILE'[k] # AsRead[j] ]_vars


\* ---------------------------------------------------------------------
\* Demo orders submitted without their optional cleartext terms
\* ---------------------------------------------------------------------

\* the record has a cleartext side, price and amount
Complete(o) ==
    o.side # UndefStr /\ o.price # UndefNum /\ o.amount # UndefNum

\* C33: a demo order that the intake accepted without a cleartext side,
\* price or amount never appears in a settlement: every demo order that a
\* settlement of the ledger references has all three; in particular two
\* QUEUED demo orders that both lack a price are never matched together.
C33_IncompleteDemoNeverSettled ==
    \A s \in Ledger : \A k \in Store :
        (ORDERS_FILE[k].id \in Refs(SETTLEMENTS_FILE[s]) /\ IsDemo(ORDERS_FILE[k]))
            => Complete(ORDERS_FILE[k])

====
